---------------------------- MODULE Spec2Model ----------------------------
(***************************************************************************)
(* Model of the streaming client of the knowledge-base front end:          *)
(* api.queryStream (services/api.ts), an async generator that turns the    *)
(* chunked body of POST /query/stream into a lazy sequence of events, and  *)
(* QueryInterface.handleSubmit, the for-await loop that consumes it.       *)
(*                                                                         *)
(* Text is a sequence of one-character strings; a response body is a       *)
(* sequence of bytes.  An ASCII byte is written as its character; the two  *)
(* bytes of the UTF-8 encoding of U+00E9 are written "C3" and "A9".        *)
(* A JSON payload is abbreviated: "{" t d... "}" stands for the object     *)
(* {"type": T, "data": d...} with T given by TypeOf(t), and "N" stands for *)
(* the JSON text null.  Every other payload is not JSON.                   *)
(***************************************************************************)
EXTENDS Naturals, Sequences, FiniteSets, TLC

\* Largest number of complete lines in a modelled response body.
MaxLines == 2

\* files handed to DocumentUpload in one run
MaxUploads == 2

VARIABLES
    response,   \* what fetch() settles with: the backend's answer
    genState,   \* the async generator: suspendedStart, fetching, reading,
                \*   suspendedYield, completed
    reader,     \* the body's reader lock: none, locked, released
    decoder,    \* TextDecoder: bytes of an incomplete character held back
    buffer,     \* let buffer
    lines,      \* the lines of the for..of loop not yet visited
    data,       \* const data of the frame last yielded
    pos,        \* bytes of the body reader.read() has delivered
    yielded,    \* the events handed to the caller, in order
    result,     \* how the caller's last request settled: none, pending,
                \*   value, done, throw
    thrown,     \* the error the generator threw
    exit,       \* the path on which the generator completed
    releases,   \* calls of reader.releaseLock()
    cuts,       \* where chunk boundaries have fallen so far: inside a line,
                \*   inside the frame prefix, inside a character
    lateCall,   \* next() or return() was called on the completed generator
    facts,      \* Facts(response.body), fixed once the response is chosen
    hs,         \* handleSubmit: idle, running, ended
    loading, error, answer, sources, processingTime, \* QueryInterface state
    call,       \* one call of an api method: its endpoint, the response fetch
                \*   settles with, how far it got and how it settled
    tphase,     \* ThemeToggle: unmounted, rendered (effects not yet run), mounted
    mode,       \* ThemeToggle's mode state
    stored,     \* localStorage["kb-rag-theme"]: none, light, dark
    prefersDark, \* matchMedia("(prefers-color-scheme: dark)").matches
    rootDark,   \* document.documentElement has the class "dark"
    toggled,    \* the user has used the toggle, now or on an earlier visit
    sysChanged, \* the system preference changed after the component mounted
    uploading, uploadedDocs, dragActive, uploadError, \* DocumentUpload state
    inflight,   \* the handleFileUpload calls awaiting api.uploadDocument
    started,    \* handleFileUpload calls so far
    settled,    \* how the api.uploadDocument calls settled, in the order
                \*   their awaits resumed
    health,     \* App's health state: absent (null) or the HealthResponse
    appLoading, \* App's loading state
    hcheck,     \* App's checkHealth: how far it got and how
                \*   api.checkHealth() settled
    query,      \* QueryInterface's query state: the text of the textarea
    previous,   \* what QueryInterface showed when handleSubmit last sent a
                \*   query
    lastSubmit, \* what the last call of handleSubmit did: none, blank, sent
    other,      \* a second consumption of api.queryStream: its generator's
                \*   own response, reader, decoder, buffer, ... while the
                \*   variables above show the first; and the other way round
    focus       \* which of the two consumptions the variables above show

gvars == <<response, genState, reader, decoder, buffer, lines, data, pos,
           yielded, result, thrown, exit, releases, cuts, lateCall, facts>>
uivars == <<hs, loading, error, answer, sources, processingTime>>
\* the state of the rest of the application, which neither api.queryStream
\* nor handleSubmit touches
avars == <<call>>
tvars == <<tphase, mode, stored, prefersDark, rootDark, toggled, sysChanged>>
dvars == <<uploading, uploadedDocs, dragActive, uploadError, inflight, started,
           settled>>
svars == <<other, focus>>
qvars == <<query, previous, lastSubmit>>
hvars == <<health, appLoading, hcheck>>
xvars == <<avars, tvars, dvars, svars, qvars, hvars>>
vars == <<response, genState, reader, decoder, buffer, lines, data, pos,
          yielded, result, thrown, exit, releases, cuts, lateCall, facts,
          hs, loading, error, answer, sources, processingTime, call,
          tphase, mode, stored, prefersDark, rootDark, toggled, sysChanged,
          uploading, uploadedDocs, dragActive, uploadError, inflight, started,
          settled, other, focus, query, previous, lastSubmit,
          health, appLoading, hcheck>>

---------------------------------------------------------------------------
\* Text helpers

NL == "\n"
Last(s) == s[Len(s)]
Front(s) == SubSeq(s, 1, Len(s) - 1)

RECURSIVE Flatten(_)
Flatten(ss) == IF ss = <<>> THEN <<>> ELSE Head(ss) \o Flatten(Tail(ss))

IsPrefix(p, s) == Len(p) <= Len(s) /\ SubSeq(s, 1, Len(p)) = p

\* String.prototype.startsWith
StartsWith(line, p) == IsPrefix(p, line)

---------------------------------------------------------------------------
\* TextDecoder.decode(value, {stream: true}) for UTF-8, restricted to ASCII
\* and two-byte characters.  held is the lead byte kept from earlier chunks.

LeadBytes == {"C3"}
ContBytes == {"A9"}
Replacement == "?"      \* U+FFFD
\* the character the two bytes encode, U+00E9
CharOf(lead, cont) == "U+00E9"

RECURSIVE DecodeFrom(_, _, _)
DecodeFrom(held, bytes, out) ==
    IF bytes = <<>> THEN [text |-> out, held |-> held]
    ELSE LET b == Head(bytes) IN
         IF held # <<>>
         THEN IF b \in ContBytes
              THEN DecodeFrom(<<>>, Tail(bytes), Append(out, CharOf(held[1], b)))
              \* not a continuation: U+FFFD, and the byte is processed again
              ELSE DecodeFrom(<<>>, bytes, Append(out, Replacement))
         ELSE IF b \in LeadBytes THEN DecodeFrom(<<b>>, Tail(bytes), out)
              ELSE IF b \in ContBytes
                   THEN DecodeFrom(<<>>, Tail(bytes), Append(out, Replacement))
                   ELSE DecodeFrom(<<>>, Tail(bytes), Append(out, b))

\* A decoder that forgets the held bytes between calls (no {stream: true}).
DecodeNoStream(held, bytes) ==
    LET r == DecodeFrom(<<>>, bytes, <<>>) IN
    [text |-> IF r.held = <<>> THEN r.text ELSE Append(r.text, Replacement),
     held |-> <<>>]

Decode(held, bytes) == DecodeFrom(held, bytes, <<>>)

---------------------------------------------------------------------------
\* buffer.split("\n"): always at least one element

RECURSIVE SplitFrom(_, _, _)
SplitFrom(text, cur, out) ==
    IF text = <<>> THEN Append(out, cur)
    ELSE IF Head(text) = NL
         THEN SplitFrom(Tail(text), <<>>, Append(out, cur))
         ELSE SplitFrom(Tail(text), Append(cur, Head(text)), out)

Split(text) == SplitFrom(text, <<>>, <<>>)

\* A pop that loses the unterminated tail.
PopDropsTail(ls) == <<>>

\* buffer = lines.pop() || ""
Pop(ls) == Last(ls)

---------------------------------------------------------------------------
\* Frames

\* line.startsWith("data: ")
Prefix == <<"d", "a", "t", "a", ":", " ">>

\* line.slice(6)
PrefixLen == 6

\* A recogniser that does not require the space after the colon.
RecognizedNoSpace(line) == StartsWith(line, SubSeq(Prefix, 1, Len(Prefix) - 1))

Recognized(line) == StartsWith(line, Prefix)

Payload(line) == SubSeq(line, PrefixLen + 1, Len(line))

\* JSON white space, which JSON.parse skips around a value
JsonSpace == {" ", "\r", "\t", NL}

RECURSIVE TrimLeft(_)
TrimLeft(s) ==
    IF s # <<>> /\ Head(s) \in JsonSpace THEN TrimLeft(Tail(s)) ELSE s

RECURSIVE TrimRight(_)
TrimRight(s) ==
    IF s # <<>> /\ Last(s) \in JsonSpace THEN TrimRight(Front(s)) ELSE s

\* the "type" an abbreviated object carries
TypeOf(t) ==
    CASE t = "s" -> "sources"
      [] t = "a" -> "answer"
      [] t = "d" -> "done"
      [] t = "e" -> "error"
      [] OTHER -> "ping"

TypeChars == {"s", "a", "d", "e", "u"}
Structural == {"{", "}", "N"} \cup JsonSpace

NullValue == [kind |-> "null", type |-> "", data |-> <<>>]

\* JSON.parse(text): [ok, value]; ok = FALSE is the SyntaxError
JSONParse(text) ==
    LET t == TrimRight(TrimLeft(text)) IN
    IF t = <<"N">> THEN [ok |-> TRUE, value |-> NullValue]
    ELSE IF /\ Len(t) >= 3
            /\ t[1] = "{"
            /\ Last(t) = "}"
            /\ t[2] \in TypeChars
            /\ \A i \in 3..(Len(t) - 1) : t[i] \notin Structural
         THEN [ok |-> TRUE,
               value |-> [kind |-> "object", type |-> TypeOf(t[2]),
                          data |-> SubSeq(t, 3, Len(t) - 1)]]
         ELSE [ok |-> FALSE, value |-> NullValue]

\* A terminal test that knows only "done".
IsTerminalDoneOnly(d) == d.type = "done"

\* data.type === "done" || data.type === "error"
IsTerminal(d) == d.type = "done" \/ d.type = "error"

\* The for..of loop over `lines` from its current position to its next
\* suspension: the yield of a frame, the throw of JSON.parse, or the end of
\* the loop (back to reader.read()).
RECURSIVE NextStep(_)

\* A loop that leaves at the first unrecognized line (break for continue).
NextStepBreaksOnNoise(ls) ==
    IF ls = <<>> \/ ~Recognized(Head(ls))
    THEN [kind |-> "read", value |-> NullValue, rest |-> <<>>]
    ELSE LET p == JSONParse(Payload(Head(ls))) IN
         IF p.ok
         THEN [kind |-> "yield", value |-> p.value, rest |-> Tail(ls)]
         ELSE [kind |-> "throw", value |-> NullValue, rest |-> Tail(ls)]

\* A loop that catches the SyntaxError of a frame and goes on to the next.
NextStepSkipsMalformed(ls) ==
    IF ls = <<>> THEN [kind |-> "read", value |-> NullValue, rest |-> <<>>]
    ELSE IF Recognized(Head(ls)) /\ JSONParse(Payload(Head(ls))).ok
         THEN [kind |-> "yield", value |-> JSONParse(Payload(Head(ls))).value,
               rest |-> Tail(ls)]
         ELSE NextStep(Tail(ls))

NextStep(ls) ==
    IF ls = <<>> THEN [kind |-> "read", value |-> NullValue, rest |-> <<>>]
    ELSE IF Recognized(Head(ls))
         THEN LET p == JSONParse(Payload(Head(ls))) IN
              IF p.ok
              THEN [kind |-> "yield", value |-> p.value, rest |-> Tail(ls)]
              ELSE [kind |-> "throw", value |-> NullValue, rest |-> Tail(ls)]
         ELSE NextStep(Tail(ls))

---------------------------------------------------------------------------
\* The backend's responses

Frame(payload) == Prefix \o payload

SourcesLine   == Frame(<<"{", "s", "1", "}">>)
AnswerLine    == Frame(<<"{", "a", "C3", "A9", "}">>)
DoneLine      == Frame(<<"{", "d", "}">>)
ErrorLine     == Frame(<<"{", "e", "!", "}">>)
MalformedLine == Frame(<<"{", "a">>)
NullLine      == Frame(<<"N">>)
BlankLine     == <<>>
NoSpaceLine   == <<"d", "a", "t", "a", ":", "{", "d", "}">>
AnswerLine2   == Frame(<<"{", "a", "2", "}">>)
UnknownLine   == Frame(<<"{", "u", "}">>)

LineKinds == {SourcesLine, AnswerLine, DoneLine, ErrorLine,
              MalformedLine, NullLine, BlankLine, NoSpaceLine}

\* the lines joined by line terminators; the last line is terminated or not
Join(ls, terminated) ==
    Flatten([i \in DOMAIN ls |->
               IF i < Len(ls) \/ terminated THEN Append(ls[i], NL) ELSE ls[i]])

\* the frames handleSubmit tells apart: two answer fragments, a frame of a
\* type it does not know, and the frames that end the stream
UILineKinds == {SourcesLine, AnswerLine, AnswerLine2, UnknownLine, DoneLine,
                ErrorLine, MalformedLine, NullLine}

BodiesOf(kinds) ==
    { Join(ls, t) :
        ls \in UNION { [1..n -> kinds] : n \in 0..MaxLines }, t \in BOOLEAN }

Bodies == BodiesOf(LineKinds)

NoBytes == <<>>

\* an optional field of an object: <<>> when it is absent, <<v>> when it is v
Absent == <<>>
Some(v) == <<v>>

\* response.json() of a non-success response: a parsed {error, detail?} or a
\* rejection
ErrorBodies == { [parsable |-> TRUE, error |-> "Not found", detail |-> Absent],
                 [parsable |-> TRUE, error |-> "Not found",
                  detail |-> Some("No such index")],
                 [parsable |-> TRUE, error |-> "", detail |-> Absent],
                 [parsable |-> FALSE, error |-> "", detail |-> Absent] }

NoErrBody == [parsable |-> FALSE, error |-> "", detail |-> Absent]

ResponsesOver(bodies) ==
    { [kind |-> "ok", status |-> 200, errBody |-> NoErrBody, body |-> b] :
        b \in bodies }
    \cup { [kind |-> "status", status |-> st, errBody |-> e, body |-> NoBytes] :
             st \in {404, 500}, e \in ErrorBodies }
    \cup { [kind |-> k, status |-> 200, errBody |-> NoErrBody,
            body |-> NoBytes] : k \in {"nobody"} }
    \cup { [kind |-> k, status |-> 0, errBody |-> NoErrBody,
            body |-> NoBytes] : k \in {"network"} }

Responses == ResponsesOver(Bodies)
UIResponses == ResponsesOver(BodiesOf(UILineKinds))

\* A status test that lets every response through.
ResponseOkAlways(r) == TRUE

\* response.ok
ResponseOk(r) == r.kind \in {"ok", "nobody"}

---------------------------------------------------------------------------
\* Errors

NoError == [name |-> "none", message |-> "", status |-> 0, detail |-> Absent]
MkError(n, m) == [name |-> n, message |-> m, status |-> 0, detail |-> Absent]

\* new APIError(error.error || "API Error", response.status), with
\* error = await response.json().catch(() => ({error: "Unknown error"}))
StreamAPIError(r) ==
    LET e == IF r.errBody.parsable THEN r.errBody.error ELSE "Unknown error" IN
    [name |-> "APIError",
     message |-> IF e = "" THEN "API Error" ELSE e,
     status |-> r.status,
     detail |-> Absent]

---------------------------------------------------------------------------
\* What a response body contains, read as a whole

Body == response.body

\* the text of the first n bytes of the body
TextOf(n) == Decode(<<>>, SubSeq(Body, 1, n)).text

\* index of the last line terminator of a text, 0 if it has none
RECURSIVE LastNL(_)
LastNL(text) ==
    IF text = <<>> THEN 0
    ELSE IF Last(text) = NL THEN Len(text) ELSE LastNL(Front(text))

AfterLastNL(text) == SubSeq(text, LastNL(text) + 1, Len(text))

\* the terminated lines of a text, without their terminators
CompleteLines(text) ==
    IF LastNL(text) = 0 THEN <<>>
    ELSE Split(SubSeq(text, 1, LastNL(text) - 1))

HasDataPrefix(line) ==
    /\ Len(line) >= 6
    /\ <<line[1], line[2], line[3], line[4], line[5], line[6]>>
         = <<"d", "a", "t", "a", ":", " ">>

TerminalEvent(e) == e.kind = "object" /\ e.type \in {"done", "error"}

\* index of the first element of a sequence of parse results that satisfies
\* Test, 0 if there is none
FirstIndex(ps, Test(_)) ==
    IF \E i \in 1..Len(ps) : Test(ps[i])
    THEN CHOOSE i \in 1..Len(ps) :
            Test(ps[i]) /\ \A j \in 1..(i - 1) : ~Test(ps[j])
    ELSE 0

IsTerminalFrame(p) == p.ok /\ TerminalEvent(p.value)
IsMalformedFrame(p) == ~p.ok
IsGoodFrame(p) == p.ok /\ p.value.kind = "object"

\* what the generator hands over, and how it ends, when it is given the
\* lines ls at once and pulled to its end
RECURSIVE Drain(_, _)
Drain(ls, out) ==
    LET st == NextStep(ls) IN
    IF st.kind = "yield"
    THEN IF st.value.kind = "null"
         THEN [events |-> Append(out, st.value), exit |-> "typeError"]
         ELSE IF TerminalEvent(st.value)
              THEN [events |-> Append(out, st.value), exit |-> "terminal"]
              ELSE Drain(st.rest, Append(out, st.value))
    ELSE IF st.kind = "throw"
         THEN [events |-> out, exit |-> "malformed"]
         ELSE [events |-> out, exit |-> "exhausted"]

\* The facts about a body that the properties below refer to:
\*   all       its terminated lines
\*   frames    those that start "data: "
\*   parsed    JSON.parse of each frame's payload
\*   terminal  index of the first terminal frame, or the number of frames
\*   malformed index of the first frame that is not JSON, 0 if none
\*   oneChunk  the events and the exit when one reader.read() delivers it all
\*   filtered  the same, for the body without its unrecognized lines
Facts(b) ==
    LET text == Decode(<<>>, b).text
        all == CompleteLines(text)
        frames == SelectSeq(all, HasDataPrefix)
        parsed == [i \in 1..Len(frames) |->
                      JSONParse(SubSeq(frames[i], 7, Len(frames[i])))]
        t == FirstIndex(parsed, IsTerminalFrame)
    IN [all |-> all,
        frames |-> frames,
        parsed |-> parsed,
        terminal |-> IF t = 0 THEN Len(frames) ELSE t,
        malformed |-> FirstIndex(parsed, IsMalformedFrame),
        tail |-> AfterLastNL(text),
        oneChunk |-> Drain(Front(Split(text)), <<>>),
        filtered |-> Drain(frames, <<>>)]

Frames == facts.frames
FirstTerminal == facts.terminal
FirstMalformed == facts.malformed
OneChunk == facts.oneChunk

Closed == genState = "completed"
RanToEnd == Closed /\ exit \in {"terminal", "exhausted", "malformed", "typeError"}

---------------------------------------------------------------------------
\* QueryInterface state values

Null == [isNull |-> TRUE, kind |-> "null", text |-> "", chars |-> <<>>]
Literal(str) == [isNull |-> FALSE, kind |-> "literal", text |-> str, chars |-> <<>>]
EventData(d) == [isNull |-> FALSE, kind |-> "data", text |-> "", chars |-> d]

\* api.queryStream(request) was called for a backend that answers with one
\* of the responses rs; nothing else has happened
Start(rs) ==
    /\ response \in rs
    /\ genState = "suspendedStart"
    /\ reader = "none"
    /\ decoder = <<>>
    /\ buffer = <<>>
    /\ lines = <<>>
    /\ data = NullValue
    /\ pos = 0
    /\ yielded = <<>>
    /\ result = "none"
    /\ thrown = NoError
    /\ exit = "none"
    /\ releases = 0
    /\ cuts = {}
    /\ lateCall = FALSE
    /\ facts = Facts(response.body)
    /\ hs = "idle"
    /\ loading = FALSE
    /\ error = Null
    /\ answer = <<>>
    /\ sources = <<>>
    /\ processingTime = Null

\* no api method has been called
NoCall == [endpoint |-> "none", response |-> [kind |-> "none"],
           phase |-> "idle", outcome |-> [kind |-> "none"]]

ApiUnused == call = NoCall

\* ThemeToggle is not rendered
ThemeUnused ==
    /\ tphase = "unmounted"
    /\ mode = "none"
    /\ stored = "none"
    /\ prefersDark = FALSE
    /\ rootDark = FALSE
    /\ toggled = FALSE
    /\ sysChanged = FALSE

\* DocumentUpload as useState leaves it, lines 8-13
UploadUnused ==
    /\ uploading = FALSE
    /\ uploadedDocs = <<>>
    /\ dragActive = FALSE
    /\ uploadError = Null
    /\ inflight = {}
    /\ started = 0
    /\ settled = <<>>

\* there is no second consumption of api.queryStream
NoOther == [genState |-> "none"]
AloneUnused == other = NoOther /\ focus = 1

\* what QueryInterface shows
Shown ==
    [answer |-> answer, sources |-> sources, error |-> error,
     processingTime |-> processingTime]

\* what it shows after useState, lines 91-94, and after the reset of
\* handleSubmit, lines 143-146
Cleared ==
    [answer |-> <<>>, sources |-> <<>>, error |-> Null, processingTime |-> Null]

\* nothing was typed and handleSubmit was never called
QueryUnused == query = <<>> /\ previous = Cleared /\ lastSubmit = "none"

\* App as useState leaves it, lines 36-37, its effect not yet run
AppRendered ==
    /\ health = Absent
    /\ appLoading = TRUE
    /\ hcheck = [phase |-> "idle", outcome |-> [kind |-> "none"]]

\* the rest of the application is not in use
Unused ==
    /\ ApiUnused /\ ThemeUnused /\ UploadUnused /\ AloneUnused /\ QueryUnused
    /\ AppRendered

Init == Start(Responses) /\ Unused
InitUI == Start(UIResponses) /\ Unused

---------------------------------------------------------------------------
\* api.queryStream: the generator's steps between suspension points

\* A finally block that forgets the reader.
FinallyNoRelease == UNCHANGED <<reader, releases>>

\* finally { reader.releaseLock() }
Finally == reader' = "released" /\ releases' = releases + 1

\* the generator completes on path `how`, settling the caller's request
Complete(how, res, err) ==
    /\ genState' = "completed"
    /\ exit' = how
    /\ result' = res
    /\ thrown' = err

\* A loop that goes on to the next read as soon as it has handed an event over.
RunLinesEager(ls) ==
    LET st == NextStep(ls) IN
    /\ lines' = st.rest
    /\ CASE st.kind = "yield" ->
              /\ genState' = "reading"
              /\ data' = st.value
              /\ yielded' = Append(yielded, st.value)
              /\ result' = "value"
              /\ UNCHANGED <<thrown, exit, reader, releases>>
         [] st.kind = "throw" ->
              /\ Finally
              /\ Complete("malformed", "throw", MkError("SyntaxError", "JSON.parse"))
              /\ UNCHANGED <<data, yielded>>
         [] st.kind = "read" ->
              /\ genState' = "reading"
              /\ result' = "pending"
              /\ UNCHANGED <<data, yielded, thrown, exit, reader, releases>>

\* the for..of loop over ls, up to its next suspension
RunLines(ls) ==
    LET st == NextStep(ls) IN
    /\ lines' = st.rest
    /\ CASE st.kind = "yield" ->
              /\ genState' = "suspendedYield"
              /\ data' = st.value
              /\ yielded' = Append(yielded, st.value)
              /\ result' = "value"
              /\ UNCHANGED <<thrown, exit, reader, releases>>
         [] st.kind = "throw" ->
              /\ Finally
              /\ Complete("malformed", "throw", MkError("SyntaxError", "JSON.parse"))
              /\ UNCHANGED <<data, yielded>>
         [] st.kind = "read" ->
              /\ genState' = "reading"
              /\ result' = "pending"
              /\ UNCHANGED <<data, yielded, thrown, exit, reader, releases>>

\* next() on a generator not yet started: the body runs to await fetch(...)
GenStart ==
    /\ genState = "suspendedStart"
    /\ result # "pending"
    /\ genState' = "fetching"
    /\ result' = "pending"
    /\ UNCHANGED <<facts, response, reader, decoder, buffer, lines, data, pos,
                   yielded, thrown, exit, releases, cuts, lateCall>>

\* fetch settles; lines 90-101
GenFetched ==
    /\ genState = "fetching"
    /\ IF response.kind = "network"
       THEN /\ Complete("setup", "throw", MkError("TypeError", "Failed to fetch"))
            /\ UNCHANGED <<reader, releases>>
       ELSE IF ~ResponseOk(response)
       THEN /\ Complete("setup", "throw", StreamAPIError(response))
            /\ UNCHANGED <<reader, releases>>
       ELSE IF response.kind # "ok"
       THEN /\ Complete("setup", "throw", MkError("Error", "No response body"))
            /\ UNCHANGED <<reader, releases>>
       ELSE /\ reader' = "locked"
            /\ genState' = "reading"
            /\ UNCHANGED <<exit, result, thrown, releases>>
    /\ UNCHANGED <<facts, response, decoder, buffer, lines, data, pos, yielded,
                   cuts, lateCall>>

\* what a chunk boundary cut, given the text and the bytes left over by it
CutsAt(buf, held) ==
    (IF buf # <<>> THEN {"line"} ELSE {})
    \cup (IF buf # <<>> /\ buf # Prefix /\ IsPrefix(buf, Prefix)
          THEN {"prefix"} ELSE {})
    \cup (IF held # <<>> THEN {"char"} ELSE {})

\* reader.read() resolves with the next n bytes; lines 105-120
GenReadChunk(n) ==
    /\ genState = "reading"
    /\ pos + n <= Len(response.body)
    /\ LET value == SubSeq(response.body, pos + 1, pos + n)
           dec == Decode(decoder, value)
           ls == Split(buffer \o dec.text)
       IN /\ pos' = pos + n
          /\ decoder' = dec.held
          /\ buffer' = Pop(ls)
          /\ cuts' = cuts \cup CutsAt(Pop(ls), dec.held)
          /\ RunLines(Front(ls))
    /\ UNCHANGED <<facts, response, lateCall>>

\* An end of body that parses what is left in the buffer.
GenReadDoneFlush ==
    /\ genState = "reading"
    /\ pos = Len(response.body)
    /\ IF Recognized(buffer) /\ JSONParse(Payload(buffer)).ok
       THEN /\ genState' = "suspendedYield"
            /\ data' = JSONParse(Payload(buffer)).value
            /\ yielded' = Append(yielded, JSONParse(Payload(buffer)).value)
            /\ result' = "value"
            /\ buffer' = <<>>
            /\ UNCHANGED <<thrown, exit, reader, releases>>
       ELSE /\ Finally
            /\ Complete("exhausted", "done", thrown)
            /\ UNCHANGED <<buffer, data, yielded>>
    /\ UNCHANGED <<facts, response, decoder, lines, pos, cuts, lateCall>>

\* An end of body that reports the missing terminal frame as an error.
GenReadDoneThrows ==
    /\ genState = "reading"
    /\ pos = Len(response.body)
    /\ Finally
    /\ Complete("exhausted", "throw", MkError("Error", "Incomplete stream"))
    /\ UNCHANGED <<facts, response, decoder, buffer, lines, data, pos, yielded,
                   cuts, lateCall>>

\* reader.read() resolves with done: break, then finally
GenReadDone ==
    /\ genState = "reading"
    /\ pos = Len(response.body)
    /\ Finally
    /\ Complete("exhausted", "done", thrown)
    /\ UNCHANGED <<facts, response, decoder, buffer, lines, data, pos, yielded,
                   cuts, lateCall>>

\* reader.read() rejects (the connection drops): the error passes finally
GenReadFail ==
    /\ genState = "reading"
    /\ Finally
    /\ Complete("readError", "throw", MkError("TypeError", "network error"))
    /\ UNCHANGED <<facts, response, decoder, buffer, lines, data, pos, yielded,
                   cuts, lateCall>>

\* next() on a generator suspended at `yield data`: lines 116-119
GenResume ==
    /\ genState = "suspendedYield"
    /\ IF data.kind = "null"
       THEN \* data.type of null
            /\ Finally
            /\ Complete("typeError", "throw", MkError("TypeError", "data is null"))
            /\ UNCHANGED <<lines, data, yielded>>
       ELSE IF IsTerminal(data)
       THEN /\ Finally
            /\ Complete("terminal", "done", thrown)
            /\ UNCHANGED <<lines, data, yielded>>
       ELSE RunLines(lines)
    /\ UNCHANGED <<facts, response, decoder, buffer, pos, cuts, lateCall>>

\* next() or return() on a completed generator: {done: true}, nothing runs
GenClosed ==
    /\ genState = "completed"
    /\ result' = "done"
    /\ lateCall' = TRUE
    /\ UNCHANGED <<facts, response, genState, reader, decoder, buffer, lines, data,
                   pos, yielded, thrown, exit, releases, cuts>>

\* return() on a generator not yet started: it completes, no code runs
GenReturnStart ==
    /\ genState = "suspendedStart"
    /\ result # "pending"
    /\ Complete("abandoned", "done", thrown)
    /\ UNCHANGED <<facts, response, reader, decoder, buffer, lines, data, pos,
                   yielded, releases, cuts, lateCall>>

\* A return() that completes the generator without running finally.
GenReturnYieldNoFinally ==
    /\ genState = "suspendedYield"
    /\ Complete("abandoned", "done", thrown)
    /\ UNCHANGED <<facts, response, reader, releases, decoder, buffer, lines,
                   data, pos, yielded, cuts, lateCall>>

\* return() on a generator suspended at `yield data`: finally runs
GenReturnYield ==
    /\ genState = "suspendedYield"
    /\ Finally
    /\ Complete("abandoned", "done", thrown)
    /\ UNCHANGED <<facts, response, decoder, buffer, lines, data, pos, yielded,
                   cuts, lateCall>>

---------------------------------------------------------------------------
\* A caller that pulls with next() and may abandon with return()

Pull == (GenStart \/ GenResume) /\ UNCHANGED <<uivars, xvars>>
PullClosed == GenClosed /\ UNCHANGED <<uivars, xvars>>
Abandon == (GenReturnStart \/ GenReturnYield) /\ UNCHANGED <<uivars, xvars>>
Fetched == GenFetched /\ UNCHANGED <<uivars, xvars>>
ReadChunk == \E n \in 1..Len(response.body) : GenReadChunk(n) /\ UNCHANGED <<uivars, xvars>>
ReadDone == GenReadDone /\ UNCHANGED <<uivars, xvars>>
ReadFail == GenReadFail /\ UNCHANGED <<uivars, xvars>>

Next ==
    \/ Pull
    \/ PullClosed
    \/ Abandon
    \/ Fetched
    \/ ReadChunk
    \/ ReadDone
    \/ ReadFail

Spec == Init /\ [][Next]_vars

---------------------------------------------------------------------------
\* QueryInterface.handleSubmit, consuming api.queryStream with for await

Queries == {<<>>, <<" ">>, <<"q">>}

\* String.prototype.trim
Trim(q) == TrimRight(TrimLeft(q))

\* A loop body that reports an event of a type it does not know as an error.
ApplyEventRejectsUnknown(event) ==
    /\ sources' = IF event.type = "sources" THEN event.data ELSE sources
    /\ answer' = IF event.type = "answer" THEN answer \o event.data ELSE answer
    /\ processingTime' =
         IF event.type = "done" THEN Literal("elapsed") ELSE processingTime
    /\ error' = IF event.type = "error" THEN EventData(event.data)
              ELSE IF event.type \in {"sources", "answer", "done"} THEN error
              ELSE Literal("Unknown event")

\* A loop body that puts each new fragment in front of the answer.
ApplyEventPrepends(event) ==
    /\ sources' = IF event.type = "sources" THEN event.data ELSE sources
    /\ answer' = IF event.type = "answer" THEN event.data \o answer ELSE answer
    /\ processingTime' =
         IF event.type = "done" THEN Literal("elapsed") ELSE processingTime
    /\ error' = IF event.type = "error" THEN EventData(event.data) ELSE error

\* the body of the for await loop, for an event that is an object
ApplyEvent(event) ==
    /\ sources' = IF event.type = "sources" THEN event.data ELSE sources
    /\ answer' = IF event.type = "answer" THEN answer \o event.data ELSE answer
    /\ processingTime' =
         IF event.type = "done" THEN Literal("elapsed") ELSE processingTime
    /\ error' = IF event.type = "error" THEN EventData(event.data) ELSE error

\* a || b, for an optional string a and a string b
OrElse(a, b) == IF a = Absent \/ a = Some("") THEN b ELSE a[1]

\* A catch that shows the same message for every error.
CatchMessageGeneric(err) == Literal("Failed to process query")

\* catch (err): err.detail || err.message for an APIError
CatchMessage(err) ==
    IF err.name = "APIError" THEN Literal(OrElse(err.detail, err.message))
    ELSE Literal("Failed to process query")

\* if (!query.trim()) return
SubmitBlank ==
    /\ hs = "idle"
    /\ \E q \in Queries : Trim(q) = <<>>
    /\ UNCHANGED vars

\* A reset that leaves the sources of the previous answer in place.
ClearStateKeepsSources ==
    /\ error' = Null
    /\ answer' = <<>>
    /\ processingTime' = Null
    /\ UNCHANGED sources

\* lines 143-146: setError(null), setAnswer(""), setSources([]),
\* setProcessingTime(null)
ClearState ==
    /\ error' = Null
    /\ answer' = <<>>
    /\ sources' = <<>>
    /\ processingTime' = Null

\* lines 141-153: the state is reset and the first event is requested
Submit ==
    /\ hs = "idle"
    /\ \E q \in Queries : Trim(q) # <<>>
    /\ hs' = "running"
    /\ loading' = TRUE
    /\ ClearState
    /\ GenStart
    /\ UNCHANGED xvars

\* lines 153-165: one event is applied and the next is requested; an event
\* that is null makes event.type throw, and for await closes the generator
LoopBody ==
    /\ hs = "running"
    /\ result = "value"
    /\ IF data.kind = "null"
       THEN /\ GenReturnYield
            /\ error' = Literal("Failed to process query")
            /\ loading' = FALSE
            /\ hs' = "ended"
            /\ UNCHANGED <<answer, sources, processingTime>>
       ELSE /\ ApplyEvent(data)
            /\ GenResume
            /\ UNCHANGED <<hs, loading>>
    /\ UNCHANGED xvars

\* the generator reports done: the loop ends, finally runs
LoopEnd ==
    /\ hs = "running"
    /\ result = "done"
    /\ loading' = FALSE
    /\ hs' = "ended"
    /\ UNCHANGED <<error, answer, sources, processingTime>>
    /\ UNCHANGED <<gvars, xvars>>

\* the generator threw: catch, then finally
Catch ==
    /\ hs = "running"
    /\ result = "throw"
    /\ error' = CatchMessage(thrown)
    /\ loading' = FALSE
    /\ hs' = "ended"
    /\ UNCHANGED <<answer, sources, processingTime>>
    /\ UNCHANGED <<gvars, xvars>>

NextUI ==
    \/ SubmitBlank
    \/ Submit
    \/ LoopBody
    \/ LoopEnd
    \/ Catch
    \/ Fetched
    \/ ReadChunk
    \/ ReadDone
    \/ ReadFail

SpecUI == InitUI /\ [][NextUI]_vars

---------------------------------------------------------------------------
\* The api object: one call of a method, from fetch to the settled promise

Endpoints == {"checkHealth", "uploadDocument", "query", "queryStream",
              "deleteDocument"}

\* response.json() of a success response, per endpoint
UploadBodies ==
    { [success |-> TRUE, message |-> "ok", document_id |-> d, filename |-> f,
       chunks_created |-> c] :
        d \in {"d1", "d2"}, f \in {"a.pdf", "b.txt"}, c \in {0, 3} }

OkBodies(endpoint) ==
    CASE endpoint = "checkHealth" ->
           { [status |-> st, chromadb_status |-> "connected"] :
               st \in {"healthy", "degraded"} }
      [] endpoint = "uploadDocument" -> UploadBodies
      [] endpoint = "query" ->
           { [query |-> "q", answer |-> a, sources |-> <<>>] :
               a \in {"", "forty-two"} }
      [] endpoint = "deleteDocument" ->
           { [success |-> b, message |-> "deleted"] : b \in BOOLEAN }
      [] OTHER -> {}

\* response.statusText: the reason phrase, empty over HTTP/2
StatusTexts(st) == {"", IF st = 404 THEN "Not Found" ELSE "Internal Server Error"}

NoJson == [parsable |-> FALSE, value |-> [success |-> FALSE]]

\* what fetch settles with for a call of `endpoint`
ApiResponses(endpoint) ==
    { [kind |-> "ok", status |-> 200, statusText |-> "OK", errBody |-> NoErrBody,
       json |-> [parsable |-> TRUE, value |-> v]] : v \in OkBodies(endpoint) }
    \cup { [kind |-> "ok", status |-> 200, statusText |-> "OK",
            errBody |-> NoErrBody, json |-> NoJson] }
    \cup UNION { { [kind |-> "status", status |-> st, statusText |-> t,
                     errBody |-> e, json |-> NoJson] :
                      t \in StatusTexts(st), e \in ErrorBodies } :
                  st \in {404, 500} }
    \cup { [kind |-> "network", status |-> 0, statusText |-> "",
            errBody |-> NoErrBody, json |-> NoJson] }

Returned(v) == [kind |-> "return", value |-> v, error |-> NoError]
Threw(e) == [kind |-> "throw", value |-> [success |-> FALSE], error |-> e]

\* new APIError(message, status, detail)
APIError(message, status, detail) ==
    [name |-> "APIError", message |-> message, status |-> status,
     detail |-> detail]

\* A handleResponse without the .catch on response.json().
HandleResponseNoCatch(r) ==
    IF ~ResponseOk(r)
    THEN IF r.errBody.parsable
         THEN Threw(APIError(IF r.errBody.error = "" THEN "API Error"
                             ELSE r.errBody.error,
                             r.status, r.errBody.detail))
         ELSE Threw(MkError("SyntaxError", "Unexpected token"))
    ELSE IF r.json.parsable
         THEN Returned(r.json.value)
         ELSE Threw(MkError("SyntaxError", "Unexpected token"))

\* A handleResponse that returns the body inside an envelope.
HandleResponseWraps(r) ==
    IF ~ResponseOk(r)
    THEN Threw(APIError("API Error", r.status, Absent))
    ELSE IF r.json.parsable
         THEN Returned([success |-> TRUE, data |-> r.json.value])
         ELSE Threw(MkError("SyntaxError", "Unexpected token"))

\* handleResponse(response)
HandleResponse(r) ==
    IF ~ResponseOk(r)
    THEN LET err == IF r.errBody.parsable
                    THEN [error |-> r.errBody.error, detail |-> r.errBody.detail]
                    ELSE [error |-> "Unknown error", detail |-> Some(r.statusText)]
         IN Threw(APIError(IF err.error = "" THEN "API Error" ELSE err.error,
                           r.status, err.detail))
    ELSE IF r.json.parsable
         THEN Returned(r.json.value)
         ELSE Threw(MkError("SyntaxError", "Unexpected token"))

\* queryStream up to line 95: the status check of the streaming endpoint
StreamSetup(r) ==
    IF ~ResponseOk(r) THEN Threw(StreamAPIError(r))
    ELSE [kind |-> "stream", value |-> [success |-> FALSE], error |-> NoError]

\* the method is called: it runs to await fetch(...)
ApiCall ==
    /\ call.phase = "idle"
    /\ call.endpoint \in Endpoints
    /\ call' = [call EXCEPT !.phase = "fetching"]
    /\ UNCHANGED <<gvars, uivars, svars, qvars, hvars, tvars, dvars>>

\* fetch rejects: the method's promise rejects with the same error
ApiFetchFails ==
    /\ call.phase = "fetching"
    /\ call.response.kind = "network"
    /\ call' = [call EXCEPT !.phase = "settled",
                            !.outcome = Threw(MkError("TypeError", "Failed to fetch"))]
    /\ UNCHANGED <<gvars, uivars, svars, qvars, hvars, tvars, dvars>>

\* fetch resolves: the response goes through handleResponse, or through the
\* status check of queryStream
ApiFetched ==
    /\ call.phase = "fetching"
    /\ call.response.kind # "network"
    /\ call' = [call EXCEPT !.phase = "settled",
                            !.outcome = IF call.endpoint = "queryStream"
                                        THEN StreamSetup(call.response)
                                        ELSE HandleResponse(call.response)]
    /\ UNCHANGED <<gvars, uivars, svars, qvars, hvars, tvars, dvars>>

NoResponse == [kind |-> "network", status |-> 0, errBody |-> NoErrBody,
               body |-> NoBytes]

InitApi ==
    /\ Start({NoResponse})
    /\ ThemeUnused /\ UploadUnused /\ AloneUnused /\ QueryUnused
    /\ AppRendered
    /\ \E e \in Endpoints : \E r \in ApiResponses(e) :
          call = [endpoint |-> e, response |-> r, phase |-> "idle",
                  outcome |-> [kind |-> "none"]]

NextApi == ApiCall \/ ApiFetchFails \/ ApiFetched

SpecApi == InitApi /\ [][NextApi]_vars

---------------------------------------------------------------------------
\* ThemeToggle

ThemeOf(matches) == IF matches THEN "dark" ELSE "light"

\* getPreferredTheme()
GetPreferredTheme ==
    IF stored \in {"light", "dark"} THEN stored ELSE ThemeOf(prefersDark)

\* setMode(m), and after the render that follows the effect on [mode], which
\* runs only if the mode changed: applyTheme(mode), localStorage.setItem
SetMode(m) ==
    /\ mode' = m
    /\ IF m # mode
       THEN rootDark' = (m = "dark") /\ stored' = m
       ELSE UNCHANGED <<rootDark, stored>>

\* the first render: useState(() => getPreferredTheme())
ThemeRender ==
    /\ tphase = "unmounted"
    /\ tphase' = "rendered"
    /\ mode' = GetPreferredTheme
    /\ UNCHANGED <<stored, prefersDark, rootDark, toggled, sysChanged>>
    /\ UNCHANGED <<gvars, uivars, svars, qvars, hvars, avars, dvars>>

\* the effects of the first render: the theme is applied and stored, and the
\* listener for changes of the system preference is registered
ThemeMount ==
    /\ tphase = "rendered"
    /\ tphase' = "mounted"
    /\ rootDark' = (mode = "dark")
    /\ stored' = mode
    /\ UNCHANGED <<mode, prefersDark, toggled, sysChanged>>
    /\ UNCHANGED <<gvars, uivars, svars, qvars, hvars, avars, dvars>>

\* the system preference changes; once mounted the listener runs
SystemChange ==
    /\ prefersDark' = ~prefersDark
    /\ IF tphase = "mounted"
       THEN /\ sysChanged' = TRUE
            /\ IF stored = "none"
               THEN SetMode(ThemeOf(prefersDark'))
               ELSE UNCHANGED <<mode, rootDark, stored>>
       ELSE UNCHANGED <<mode, rootDark, stored, sysChanged>>
    /\ UNCHANGED <<tphase, toggled>>
    /\ UNCHANGED <<gvars, uivars, svars, qvars, hvars, avars, dvars>>

\* the button: setMode(prev => prev === "light" ? "dark" : "light")
Toggle ==
    /\ tphase = "mounted"
    /\ SetMode(IF mode = "light" THEN "dark" ELSE "light")
    /\ toggled' = TRUE
    /\ UNCHANGED <<tphase, prefersDark, sysChanged>>
    /\ UNCHANGED <<gvars, uivars, svars, qvars, hvars, avars, dvars>>

\* the page is opened: storage holds nothing, or the theme of an earlier
\* visit, which the user chose or did not
InitTheme ==
    /\ tphase = "unmounted"
    /\ mode = "none"
    /\ stored \in {"none", "light", "dark"}
    /\ prefersDark \in BOOLEAN
    /\ rootDark = FALSE
    /\ toggled \in (IF stored = "none" THEN {FALSE} ELSE BOOLEAN)
    /\ sysChanged = FALSE

---------------------------------------------------------------------------
\* App: the health check on mount and what is rendered

\* An App that shows the panels for every health response.
ViewAnyHealth ==
    IF appLoading THEN "spinner"
    ELSE IF health = Absent THEN "unreachable"
    ELSE "panels"

\* lines 84-164: the spinner, the 'Unable to reach the backend' panel, or the
\* upload and query panels
View ==
    IF appLoading THEN "spinner"
    ELSE IF health = Absent \/ health[1].status # "healthy" THEN "unreachable"
    ELSE "panels"

\* the effect of the first render: checkHealth() runs to await
\* api.checkHealth()
AppMount ==
    /\ hcheck.phase = "idle"
    /\ hcheck' = [hcheck EXCEPT !.phase = "pending"]
    /\ UNCHANGED <<health, appLoading>>
    /\ UNCHANGED <<gvars, uivars, svars, qvars, avars, tvars, dvars>>

\* api.checkHealth() settles for the response r: lines 46-51
HealthSettled(r) ==
    LET out == IF r.kind = "network"
               THEN Threw(MkError("TypeError", "Failed to fetch"))
               ELSE HandleResponse(r)
    IN /\ hcheck.phase = "pending"
       /\ hcheck' = [phase |-> "settled", outcome |-> out]
       /\ health' = IF out.kind = "return" THEN Some(out.value) ELSE health
       /\ appLoading' = FALSE
       /\ UNCHANGED <<gvars, uivars, svars, qvars, avars, tvars, dvars>>

\* what the backend answers to GET /health
HealthChecked ==
    \E r \in { a \in ApiResponses("checkHealth") :
                a.kind = "status" =>
                    a.statusText = "" /\ a.errBody.detail = Absent } :
        HealthSettled(r)

---------------------------------------------------------------------------
\* DocumentUpload

\* what the backend answers to an upload
UploadResponses ==
    { r \in ApiResponses("uploadDocument") :
        /\ (r.kind = "ok" /\ r.json.parsable) =>
              \/ /\ r.json.value.document_id = "d1"
                 /\ r.json.value.filename = "a.pdf"
                 /\ r.json.value.chunks_created = 3
              \/ /\ r.json.value.document_id = "d2"
                 /\ r.json.value.filename = "b.txt"
                 /\ r.json.value.chunks_created = 0
        /\ r.kind = "status" => r.status = 500 /\ r.statusText = "" }

\* api.uploadDocument(file) settles for the response r
UploadOutcome(r) ==
    IF r.kind = "network" THEN Threw(MkError("TypeError", "Failed to fetch"))
    ELSE HandleResponse(r)

\* handleFileUpload up to its await, lines 24-28
HandleFileUpload ==
    /\ started < MaxUploads
    /\ started' = started + 1
    /\ inflight' = inflight \cup {started + 1}
    /\ uploading' = TRUE
    /\ uploadError' = Null
    /\ UNCHANGED <<uploadedDocs, settled>>

\* handleDrag: dragenter and dragover
DragOver ==
    /\ View = "panels"
    /\ ~dragActive
    /\ dragActive' = TRUE
    /\ UNCHANGED <<uploading, uploadedDocs, uploadError, inflight, started,
                   settled>>
    /\ UNCHANGED <<gvars, uivars, svars, qvars, hvars, avars, tvars>>

\* handleDrag: dragleave
DragLeave ==
    /\ View = "panels"
    /\ dragActive
    /\ dragActive' = FALSE
    /\ UNCHANGED <<uploading, uploadedDocs, uploadError, inflight, started,
                   settled>>
    /\ UNCHANGED <<gvars, uivars, svars, qvars, hvars, avars, tvars>>

\* handleDrop: a file is dropped on the drop zone
Drop ==
    /\ View = "panels"
    /\ dragActive' = FALSE
    /\ HandleFileUpload
    /\ UNCHANGED <<gvars, uivars, svars, qvars, hvars, avars, tvars>>

\* handleFileInput: a file is picked; the input is disabled while uploading
FileInput ==
    /\ View = "panels"
    /\ ~uploading
    /\ HandleFileUpload
    /\ UNCHANGED dragActive
    /\ UNCHANGED <<gvars, uivars, svars, qvars, hvars, avars, tvars>>

\* catch (err) of handleFileUpload
UploadCatchMessage(err) ==
    IF err.name = "APIError" THEN Literal(OrElse(err.detail, err.message))
    ELSE Literal("Failed to upload document")

\* the entry of the list for the response body v, lines 32-36
DocEntry(v) ==
    [id |-> v.document_id, name |-> v.filename, chunks |-> v.chunks_created]

\* what is noted about the call i that settled with out
Settlement(i, out) ==
    [call |-> i, kind |-> out.kind, value |-> out.value, error |-> out.error]

\* A continuation that puts the new entry in front of the list.
UploadSettledPrepends(i, r) ==
    LET out == UploadOutcome(r) IN
    /\ i \in inflight
    /\ inflight' = inflight \ {i}
    /\ settled' = Append(settled, Settlement(i, out))
    /\ IF out.kind = "return"
       THEN /\ uploadedDocs' = <<DocEntry(out.value)>> \o uploadedDocs
            /\ UNCHANGED uploadError
       ELSE /\ uploadError' = UploadCatchMessage(out.error)
            /\ UNCHANGED uploadedDocs
    /\ uploading' = FALSE
    /\ UNCHANGED <<dragActive, started>>
    /\ UNCHANGED <<gvars, uivars, svars, qvars, hvars, avars, tvars>>

\* the await of call i settles: lines 30-46
UploadSettled(i, r) ==
    LET out == UploadOutcome(r) IN
    /\ i \in inflight
    /\ inflight' = inflight \ {i}
    /\ settled' = Append(settled, Settlement(i, out))
    /\ IF out.kind = "return"
       THEN /\ uploadedDocs' = Append(uploadedDocs, DocEntry(out.value))
            /\ UNCHANGED uploadError
       ELSE /\ uploadError' = UploadCatchMessage(out.error)
            /\ UNCHANGED uploadedDocs
    /\ uploading' = FALSE
    /\ UNCHANGED <<dragActive, started>>
    /\ UNCHANGED <<gvars, uivars, svars, qvars, hvars, avars, tvars>>

\* const stats = useMemo(...), lines 15-21
RECURSIVE SumChunks(_)
SumChunks(docs) ==
    IF docs = <<>> THEN 0 ELSE SumChunks(Front(docs)) + Last(docs).chunks

Stats == [documents |-> Len(uploadedDocs), chunks |-> SumChunks(uploadedDocs)]

UploadDone == \E i \in 1..MaxUploads : \E r \in UploadResponses : UploadSettled(i, r)

---------------------------------------------------------------------------
\* The page: ThemeToggle in the header, and DocumentUpload once the health
\* check lets it be rendered

InitApp ==
    /\ Start({NoResponse})
    /\ ApiUnused
    /\ InitTheme
    /\ UploadUnused
    /\ AloneUnused
    /\ QueryUnused
    /\ AppRendered

NextApp ==
    \/ AppMount
    \/ HealthChecked
    \/ ThemeRender
    \/ ThemeMount
    \/ SystemChange
    \/ Toggle
    \/ DragOver
    \/ DragLeave
    \/ Drop
    \/ FileInput
    \/ UploadDone

SpecApp == InitApp /\ [][NextApp]_vars

---------------------------------------------------------------------------
\* Two consumptions of api.queryStream at the same time.  response, reader,
\* decoder, buffer and the loop's lines and data are locals of one call of the
\* generator function, so each consumption has its own; the variables show
\* those of the consumption whose code runs next, and `other` keeps the rest.

TwoResponses ==
    ResponsesOver({ Join(<<AnswerLine, DoneLine>>, TRUE),
                    Join(<<SourcesLine, AnswerLine2>>, TRUE),
                    Join(<<ErrorLine>>, FALSE) })

\* the locals and the protocol state of the generator the variables show
Mine ==
    [response |-> response, genState |-> genState, reader |-> reader,
     decoder |-> decoder, buffer |-> buffer, lines |-> lines, data |-> data,
     pos |-> pos, yielded |-> yielded, result |-> result, thrown |-> thrown,
     exit |-> exit, releases |-> releases, cuts |-> cuts,
     lateCall |-> lateCall, facts |-> facts]

\* a generator created for the response r and not yet started
Created(r) ==
    [response |-> r, genState |-> "suspendedStart", reader |-> "none",
     decoder |-> <<>>, buffer |-> <<>>, lines |-> <<>>, data |-> NullValue,
     pos |-> 0, yielded |-> <<>>, result |-> "none", thrown |-> NoError,
     exit |-> "none", releases |-> 0, cuts |-> {}, lateCall |-> FALSE,
     facts |-> Facts(r.body)]

\* Two generators that share one buffer (a buffer outside the function).
TurnSharedBuffer ==
    /\ focus' = 3 - focus
    /\ other' = Mine
    /\ response' = other.response
    /\ genState' = other.genState
    /\ reader' = other.reader
    /\ decoder' = other.decoder
    /\ buffer' = buffer
    /\ lines' = other.lines
    /\ data' = other.data
    /\ pos' = other.pos
    /\ yielded' = other.yielded
    /\ result' = other.result
    /\ thrown' = other.thrown
    /\ exit' = other.exit
    /\ releases' = other.releases
    /\ cuts' = other.cuts
    /\ lateCall' = other.lateCall
    /\ facts' = other.facts
    /\ UNCHANGED <<uivars, avars, tvars, dvars, qvars, hvars>>

\* the event loop turns to the other consumption: the next step is one of its
\* generator, on its own locals
Turn ==
    /\ focus' = 3 - focus
    /\ other' = Mine
    /\ response' = other.response
    /\ genState' = other.genState
    /\ reader' = other.reader
    /\ decoder' = other.decoder
    /\ buffer' = other.buffer
    /\ lines' = other.lines
    /\ data' = other.data
    /\ pos' = other.pos
    /\ yielded' = other.yielded
    /\ result' = other.result
    /\ thrown' = other.thrown
    /\ exit' = other.exit
    /\ releases' = other.releases
    /\ cuts' = other.cuts
    /\ lateCall' = other.lateCall
    /\ facts' = other.facts
    /\ UNCHANGED <<uivars, avars, tvars, dvars, qvars, hvars>>

InitTwo ==
    /\ Start(TwoResponses)
    /\ ApiUnused /\ ThemeUnused /\ UploadUnused /\ QueryUnused
    /\ AppRendered
    /\ other \in {Created(r) : r \in TwoResponses}
    /\ focus = 1

NextTwo ==
    \/ Pull
    \/ Fetched
    \/ ReadChunk
    \/ ReadDone
    \/ Turn

SpecTwo == InitTwo /\ [][NextTwo]_vars

---------------------------------------------------------------------------
\* QueryInterface over several queries: the user types, submits, and submits
\* again when the run before has ended

\* what the backend answers to the queries
AgainResponses ==
    { r \in ResponsesOver({ Join(<<SourcesLine, AnswerLine, DoneLine>>, TRUE),
                            Join(<<AnswerLine2, ErrorLine>>, TRUE),
                            Join(<<UnknownLine>>, FALSE) }) :
        r.kind = "status" => r.status = 500 /\ r.errBody.error = "Not found" }

\* api.queryStream(...) creates a generator for a backend that answers with
\* one of rs, and for await pulls it for the first time: it runs to
\* await fetch(...)
NewStream(rs) ==
    /\ response' \in rs
    /\ genState' = "fetching"
    /\ reader' = "none"
    /\ decoder' = <<>>
    /\ buffer' = <<>>
    /\ lines' = <<>>
    /\ data' = NullValue
    /\ pos' = 0
    /\ yielded' = <<>>
    /\ result' = "pending"
    /\ thrown' = NoError
    /\ exit' = "none"
    /\ releases' = 0
    /\ cuts' = {}
    /\ lateCall' = FALSE
    /\ facts' = Facts(response'.body)

\* onChange of the textarea, which is disabled while loading
TypeQuery ==
    /\ ~loading
    /\ \E q \in Queries : query' = q
    /\ UNCHANGED <<previous, lastSubmit>>
    /\ UNCHANGED <<gvars, uivars, avars, tvars, dvars, svars, hvars>>

\* handleSubmit for a query that trims to nothing (Enter in the textarea):
\* line 139 returns
HandleSubmitBlank ==
    /\ ~loading
    /\ Trim(query) = <<>>
    /\ lastSubmit' = "blank"
    /\ UNCHANGED <<query, previous>>
    /\ UNCHANGED <<gvars, uivars, avars, tvars, dvars, svars, hvars>>

\* handleSubmit for any other query, lines 141-153
HandleSubmit ==
    /\ ~loading
    /\ Trim(query) # <<>>
    /\ lastSubmit' = "sent"
    /\ previous' = Shown
    /\ hs' = "running"
    /\ loading' = TRUE
    /\ ClearState
    /\ NewStream(AgainResponses)
    /\ UNCHANGED query
    /\ UNCHANGED <<avars, tvars, dvars, svars, hvars>>

InitAgain == Start({NoResponse}) /\ Unused

NextAgain ==
    \/ TypeQuery
    \/ HandleSubmitBlank
    \/ HandleSubmit
    \/ LoopBody
    \/ LoopEnd
    \/ Catch
    \/ Fetched
    \/ ReadChunk
    \/ ReadDone
    \/ ReadFail

SpecAgain == InitAgain /\ [][NextAgain]_vars

---------------------------------------------------------------------------
\* C1: chunking-invariance.  However the body is cut into chunks, the events
\* handed over so far are a prefix of the events of the one-chunk delivery,
\* and a generator that ran to its end has handed over exactly those events
\* and ended the same way.
C1_ChunkingInvariance ==
    /\ IsPrefix(yielded, OneChunk.events)
    /\ RanToEnd => yielded = OneChunk.events /\ exit = OneChunk.exit

\* a terminal event was reached although chunk boundaries fell inside a line,
\* inside the "data: " prefix and inside a two-byte character
C1_Witness ==
    /\ RanToEnd
    /\ exit = "terminal"
    /\ cuts = {"line", "prefix", "char"}
    /\ Len(yielded) >= 2

\* the payloads of the frames up to and including the first terminal frame
ExpectedEvents ==
    [i \in 1..FirstTerminal |-> facts.parsed[i].value]

\* C2: order preservation.  When the frames F1..Fn up to the first terminal
\* frame all parse to objects, the events handed over are always a prefix of
\* their payloads in frame order, and all of them once the generator has run
\* to its end.
C2_OrderPreserved ==
    (\A i \in 1..FirstTerminal : IsGoodFrame(facts.parsed[i]))
    => /\ IsPrefix(yielded, ExpectedEvents)
       /\ RanToEnd => yielded = ExpectedEvents

\* a sources and an answer frame, one of them put together from two chunks,
\* handed over in that order
C2_Witness ==
    /\ RanToEnd
    /\ Len(yielded) = 2
    /\ yielded = ExpectedEvents
    /\ yielded[1].type = "sources"
    /\ yielded[2].type = "answer"
    /\ "line" \in cuts

\* the last event handed over is terminal
TerminalYielded == yielded # <<>> /\ TerminalEvent(Last(yielded))

C3_OnlyLast ==
    \A i \in 1..(Len(yielded) - 1) : ~TerminalEvent(yielded[i])

\* C3: terminal short-circuit.  A terminal event is only ever the last event
\* handed over, and once one has been handed over no further event is handed
\* over, no byte is read and no read is issued.
C3_TerminalShortCircuit ==
    /\ []C3_OnlyLast
    /\ [][TerminalYielded =>
            /\ yielded' = yielded
            /\ pos' = pos
            /\ genState' \in {"suspendedYield", "completed"}
            /\ genState' = "suspendedYield" => genState = "suspendedYield"]_vars

\* closed after a terminal event while a later frame of the same chunk was
\* still unvisited
C3_Witness ==
    /\ Closed
    /\ exit = "terminal"
    /\ \E i \in 1..Len(lines) : HasDataPrefix(lines[i])
    /\ Len(yielded) = 1

\* C4: the reader, once acquired, is released on every exit path; no closed
\* generator holds it.
C4_ReleasedOnExit ==
    Closed =>
      /\ reader # "locked"
      /\ exit \in {"terminal", "exhausted", "malformed", "typeError", "readError"}
           => reader = "released"
      /\ exit = "abandoned" /\ yielded # <<>> => reader = "released"

\* a read rejected after an event had been handed over
C4_Witness ==
    /\ Closed
    /\ exit = "readError"
    /\ yielded # <<>>
    /\ reader = "released"

\* at most one release, and exactly one after an abandonment at a yield
C5_State ==
    /\ releases <= 1
    /\ Closed /\ exit = "abandoned" /\ yielded # <<>>
         => releases = 1 /\ reader = "released"

\* C5: abandoning after the sources event releases the reader exactly once,
\* and a call on a closed generator releases nothing and raises nothing.
C5_ReleaseOnce ==
    /\ []C5_State
    /\ [][Closed =>
            /\ releases' = releases
            /\ reader' = reader
            /\ thrown' = thrown
            /\ result' = "done"]_vars

\* abandoned right after the sources event, then called again
C5_Witness ==
    /\ Closed
    /\ exit = "abandoned"
    /\ Len(yielded) = 1
    /\ yielded[1].type = "sources"
    /\ Len(Frames) = 2
    /\ facts.parsed[2].value.type = "done"
    /\ lateCall
    /\ releases = 1

\* the frames among the terminated lines received so far
FramesReceived == SelectSeq(CompleteLines(TextOf(pos)), HasDataPrefix)

\* C6: text not yet followed by a line terminator is never parsed.  The
\* buffer is always the text received after the last line terminator, no
\* event comes from anything but a terminated line, and when the body ends
\* the unterminated rest stays in the buffer, unparsed.
C6_PartialLineNeverParsed ==
    /\ reader # "none" => buffer = AfterLastNL(TextOf(pos))
    /\ Len(yielded) <= Len(FramesReceived)
    /\ Closed /\ exit = "exhausted"
         => /\ pos = Len(Body)
            /\ buffer = facts.tail
            /\ yielded = [i \in 1..Len(Frames) |-> facts.parsed[i].value]
            /\ \A i \in 1..Len(yielded) : ~TerminalEvent(yielded[i])

\* the body ended on an unterminated but complete done frame after a line had
\* been put together from two chunks
C6_Witness ==
    /\ Closed
    /\ exit = "exhausted"
    /\ buffer = DoneLine
    /\ Len(yielded) = 1
    /\ "line" \in cuts

\* C7: unrecognized-line filtering.  The events handed over, and the way the
\* generator ends, are those of the body with every line that does not start
\* "data: " removed.
C7_UnrecognizedFiltered ==
    /\ IsPrefix(yielded, facts.filtered.events)
    /\ RanToEnd => yielded = facts.filtered.events /\ exit = facts.filtered.exit

\* a "data:" line without the space, then a frame whose event is handed over
C7_Witness ==
    /\ RanToEnd
    /\ Len(facts.all) = 2
    /\ facts.all[1] = NoSpaceLine
    /\ Len(yielded) = 1
    /\ exit = "exhausted"
    /\ thrown = NoError

\* the payloads of the frames before the first frame that is not JSON
BeforeMalformed ==
    [i \in 1..(FirstMalformed - 1) |-> facts.parsed[i].value]

\* C8: a frame that is not JSON fails the pull that reaches it with the
\* SyntaxError; the generator is closed and the reader released; the events
\* handed over are those of the frames before it, and neither it nor any
\* frame after it is ever handed over.
C8_MalformedFrame ==
    /\ FirstMalformed > 0
         => Len(yielded) < FirstMalformed /\ IsPrefix(yielded, BeforeMalformed)
    /\ exit = "malformed"
         => /\ Closed
            /\ reader = "released"
            /\ thrown.name = "SyntaxError"
            /\ ~lateCall => result = "throw"
            /\ FirstMalformed > 0
            /\ yielded = BeforeMalformed
            /\ \A i \in 1..Len(yielded) : yielded[i].type # "error"

\* the second frame is not JSON: one event, then the SyntaxError
C8_Witness ==
    /\ exit = "malformed"
    /\ result = "throw"
    /\ FirstMalformed = 2
    /\ Len(yielded) = 1
    /\ "line" \in cuts

\* the response has a non-success status, or is successful without a body
SetupFails == response.kind \in {"status", "nobody"}

\* C9: when the response has a non-success status or no body, the first pull
\* raises the error, no event is handed over, no reader is acquired and the
\* generator is closed.
C9_SetupFailure ==
    SetupFails =>
      /\ yielded = <<>>
      /\ reader = "none"
      /\ releases = 0
      /\ genState \in {"suspendedStart", "fetching", "completed"}
      /\ Closed => exit \in {"setup", "abandoned"}
      /\ Closed /\ exit = "setup" =>
           /\ ~lateCall => result = "throw"
           /\ response.kind = "status" =>
                /\ thrown.name = "APIError"
                /\ thrown.status = response.status
                /\ thrown.message # ""
           /\ response.kind = "nobody" =>
                thrown = MkError("Error", "No response body")

\* a 500 response: the first pull threw the APIError
C9_Witness ==
    /\ response.kind = "status"
    /\ response.status = 500
    /\ Closed
    /\ exit = "setup"
    /\ result = "throw"
    /\ thrown.name = "APIError"

\* C10: when the body ends and no terminal event was seen, the generator
\* completes normally with the reader released, and handleSubmit ends with
\* loading false, error null and processingTime null.
C10_SilentExhaustion ==
    exit = "exhausted" =>
      /\ Closed
      /\ reader = "released"
      /\ result = "done"
      /\ thrown = NoError
      /\ \A i \in 1..Len(yielded) : ~TerminalEvent(yielded[i])
      /\ hs = "ended" =>
           /\ loading = FALSE
           /\ error = Null
           /\ processingTime = Null

\* handleSubmit ended after two events, one an answer, and no terminal frame
C10_Witness ==
    /\ exit = "exhausted"
    /\ hs = "ended"
    /\ answer # <<>>
    /\ Len(yielded) = 2

---------------------------------------------------------------------------
\* a frame of the chunk received last that the loop has still to visit
FrameWaiting == \E i \in 1..Len(lines) : Recognized(lines[i])

\* C11: backpressure.  Before the caller's first pull nothing is requested;
\* a transport request is outstanding only while a pull is unanswered and no
\* frame of a received chunk is left to hand over; a step hands over at most
\* one event, as the answer to one pull, and suspends; and bytes are taken
\* from the transport only for an unanswered pull.
C11_Backpressure ==
    /\ [](/\ result = "none" =>
               /\ genState \in {"suspendedStart", "completed"}
               /\ pos = 0 /\ reader = "none"
          /\ genState \in {"fetching", "reading"} => result = "pending" /\ ~FrameWaiting
          /\ result = "value" => genState = "suspendedYield")
    /\ [][/\ yielded' # yielded =>
               /\ yielded' = Append(yielded, data')
               /\ result' = "value"
               /\ genState' = "suspendedYield"
               /\ pos' = pos \/ result = "pending"
          /\ pos' # pos => genState = "reading" /\ result = "pending"]_vars

\* an event was handed over while another frame of the same chunk waits: the
\* generator is suspended, not reading
C11_Witness ==
    /\ genState = "suspendedYield"
    /\ result = "value"
    /\ Len(yielded) = 1
    /\ FrameWaiting
    /\ exit = "none"

---------------------------------------------------------------------------
\* an event of a type that neither queryStream nor handleSubmit interprets
UnknownEvent(e) ==
    e.kind = "object" /\ e.type \notin {"sources", "answer", "done", "error"}

\* C12: a frame of an unknown type is handed over as the event it parses to,
\* type included; a generator that closed right after it did so because the
\* body ended, the next frame was malformed or the transport failed, never
\* because of the event; and the step of handleSubmit that receives it
\* changes nothing of the component's state.
C12_UnknownTypeForwarded ==
    /\ [](/\ \A i \in 1..Len(yielded) :
                 facts.parsed[i].ok /\ yielded[i] = facts.parsed[i].value
          /\ (Closed /\ yielded # <<>> /\ UnknownEvent(Last(yielded))) =>
                 /\ exit \in {"exhausted", "malformed", "readError"}
                 /\ exit = "exhausted" =>
                       /\ Len(Frames) = Len(yielded)
                       /\ result = "done" /\ thrown = NoError
                 /\ exit = "malformed" => FirstMalformed = Len(yielded) + 1)
    /\ [][(hs = "running" /\ result = "value" /\ UnknownEvent(data)) =>
             UNCHANGED <<hs, loading, error, answer, sources, processingTime>>]_vars

\* handleSubmit ended after an event of unknown type and the answer event of
\* the frame that followed it
C12_Witness ==
    /\ hs = "ended"
    /\ Len(yielded) = 2
    /\ UnknownEvent(yielded[1]) /\ yielded[1].type = "ping"
    /\ yielded[2].type = "answer"
    /\ answer = yielded[2].data
    /\ error = Null

---------------------------------------------------------------------------
\* the call settled
Settled == call.phase = "settled"

\* the response was a non-success one whose body is {error, detail?}
ErrorObject ==
    /\ call.response.kind = "status"
    /\ call.response.errBody.parsable
    /\ call.response.errBody.error # ""

\* C13: on every endpoint a non-success response with the body
\* {error, detail?} settles the call with an APIError that carries the
\* response's status, the body's error as its message, and the body's detail
\* when the body has one.
C13_ErrorSurfaced ==
    (Settled /\ ErrorObject) =>
      /\ call.outcome.kind = "throw"
      /\ call.outcome.error =
           APIError(call.response.errBody.error, call.response.status,
                    call.response.errBody.detail)

\* C13, for the four endpoints that go through handleResponse (checkHealth,
\* uploadDocument, query, deleteDocument): the APIError carries the status,
\* the body's error and the body's detail.
C13_HandleResponseEndpoints ==
    (Settled /\ ErrorObject /\ call.endpoint # "queryStream") =>
      /\ call.outcome.kind = "throw"
      /\ call.outcome.error =
           APIError(call.response.errBody.error, call.response.status,
                    call.response.errBody.detail)

\* the streaming endpoint settled for an error body that has a detail
C13_Witness ==
    /\ Settled /\ ErrorObject
    /\ call.endpoint = "queryStream"
    /\ call.response.errBody.detail = Some("No such index")
    /\ call.outcome.error.name = "APIError"
    /\ call.outcome.error.detail = Absent

\* C14: on every endpoint a non-success response whose body is not JSON
\* settles the call with an APIError that carries the response's status and
\* the message "Unknown error".
C14_ErrorFallback ==
    (Settled /\ call.response.kind = "status"
             /\ ~call.response.errBody.parsable) =>
      /\ call.outcome.kind = "throw"
      /\ call.outcome.error.name = "APIError"
      /\ call.outcome.error.status = call.response.status
      /\ call.outcome.error.message = "Unknown error"
      /\ call.outcome.error.message # ""

\* an upload answered 500 with a body that is not JSON
C14_Witness ==
    /\ Settled
    /\ call.endpoint = "uploadDocument"
    /\ call.response.kind = "status" /\ call.response.status = 500
    /\ ~call.response.errBody.parsable
    /\ call.outcome.error.message = "Unknown error"

\* C17: an upload that is answered with success settles with the parsed
\* response body, every field as the backend sent it.
C17_UploadRoundTrip ==
    (Settled /\ call.endpoint = "uploadDocument" /\ call.response.kind = "ok"
             /\ call.response.json.parsable) =>
      /\ call.outcome.kind = "return"
      /\ call.outcome.value = call.response.json.value
      /\ call.outcome.value \in UploadBodies

\* an upload returned the body of document d2, b.txt, three chunks
C17_Witness ==
    /\ Settled
    /\ call.endpoint = "uploadDocument"
    /\ call.outcome.kind = "return"
    /\ call.outcome.value.document_id = "d2"
    /\ call.outcome.value.filename = "b.txt"
    /\ call.outcome.value.chunks_created = 3

---------------------------------------------------------------------------
\* the events the loop body of handleSubmit has received: all that were
\* handed over, but for one the loop body has still to run for
Received ==
    IF hs = "running" /\ result = "value" THEN Front(yielded) ELSE yielded

IsAnswer(e) == e.kind = "object" /\ e.type = "answer"

\* the data of the answer events among es, concatenated in order
RECURSIVE AnswerText(_)
AnswerText(es) ==
    IF es = <<>> THEN <<>>
    ELSE AnswerText(Front(es)) \o (IF IsAnswer(Last(es)) THEN Last(es).data ELSE <<>>)

\* C15: at every point of a handleSubmit run the displayed answer is the
\* concatenation, in arrival order, of the data of the answer events received
\* so far, and the step that receives an event of any other kind leaves the
\* answer as it is.
C15_AnswerConcatenation ==
    /\ [](answer = AnswerText(Received))
    /\ [][(hs = "running" /\ result = "value" /\ ~IsAnswer(data)) =>
             answer' = answer]_vars

\* handleSubmit ended after two different answer fragments
C15_Witness ==
    /\ hs = "ended"
    /\ Len(yielded) = 2
    /\ IsAnswer(yielded[1]) /\ IsAnswer(yielded[2])
    /\ yielded[1].data # yielded[2].data
    /\ answer = yielded[1].data \o yielded[2].data

---------------------------------------------------------------------------
\* the last event handed over was an 'error' event
ErrorEventLast ==
    /\ yielded # <<>>
    /\ Last(yielded).kind = "object"
    /\ Last(yielded).type = "error"

\* C18: however handleSubmit ends, loading is false again; after an APIError
\* the error shown is its detail when it has a non-empty one and its message
\* otherwise; after any other thrown error, the TypeError of a null event
\* included, it is 'Failed to process query'; after an 'error' event it is
\* that event's data; and after a done event or the end of the body there is
\* none.
C18_FailureReported ==
    hs = "ended" =>
      /\ loading = FALSE
      /\ error =
           CASE result = "throw" /\ thrown.name = "APIError" ->
                  Literal(IF thrown.detail \notin {Absent, Some("")}
                          THEN thrown.detail[1] ELSE thrown.message)
             [] result = "throw" /\ thrown.name # "APIError" ->
                  Literal("Failed to process query")
             [] result # "throw" /\ exit = "abandoned" ->
                  Literal("Failed to process query")
             [] result # "throw" /\ exit # "abandoned" /\ ErrorEventLast ->
                  EventData(Last(yielded).data)
             [] OTHER -> Null

\* handleSubmit ended on the APIError of a 404 answer and shows its message
C18_Witness ==
    /\ hs = "ended"
    /\ loading = FALSE
    /\ thrown.name = "APIError" /\ thrown.status = 404
    /\ error = Literal("Not found")

---------------------------------------------------------------------------
\* C19: once the component is mounted, if the user has never used the toggle
\* and the system preference has changed, the mode is the one the system
\* prefers.
C19_FollowsSystem ==
    (tphase = "mounted" /\ ~toggled /\ sysChanged) => mode = ThemeOf(prefersDark)

\* first visit, no toggle: the system went dark after the mount and the mode
\* stayed light, because the mount had stored it
C19_Witness ==
    /\ tphase = "mounted"
    /\ ~toggled /\ sysChanged
    /\ prefersDark
    /\ mode = "light" /\ stored = "light" /\ ~rootDark

\* C20: uploading is true exactly while at least one uploadDocument call is
\* in flight.
C20_UploadingWhileInFlight == uploading <=> (inflight # {})

\* a second file was dropped during an upload, the first upload settled, and
\* the indicator is off while the second is still in flight
C20_Witness ==
    /\ started = 2
    /\ Cardinality(inflight) = 1
    /\ ~uploading

---------------------------------------------------------------------------
\* the events g has handed over are those its body yields when it is consumed
\* alone (a prefix of them while it runs), and it ends the same way
AsAlone(g) ==
    /\ IsPrefix(g.yielded, g.facts.oneChunk.events)
    /\ (g.genState = "completed"
          /\ g.exit \in {"terminal", "exhausted", "malformed", "typeError"}) =>
         /\ g.yielded = g.facts.oneChunk.events
         /\ g.exit = g.facts.oneChunk.exit

\* C16: of two consumptions running at the same time, under every
\* interleaving of their pulls and chunk arrivals, each hands over the events
\* it would hand over alone; each has its own reader, which it releases once.
C16_Independent ==
    /\ AsAlone(Mine)
    /\ AsAlone(other)
    /\ \A g \in {Mine, other} :
          /\ g.releases <= 1
          /\ g.genState = "completed" /\ g.reader # "none" => g.reader = "released"

\* both consumptions have handed over one event and hold the beginning of
\* their second line in their buffers; the bodies differ
C16_Witness ==
    /\ Len(yielded) = 1 /\ Len(other.yielded) = 1
    /\ buffer # <<>> /\ other.buffer # <<>>
    /\ buffer # other.buffer
    /\ response.body # other.response.body

---------------------------------------------------------------------------
Succeeded(out) == out.kind = "return"

\* the uploads that succeeded, in the order they completed
Successes == SelectSeq(settled, Succeeded)

\* the chunks_created of the response bodies of outs, added up
RECURSIVE ChunksCreated(_)
ChunksCreated(outs) ==
    IF outs = <<>> THEN 0
    ELSE ChunksCreated(Front(outs)) + Last(outs).value.chunks_created

\* C21: under every interleaving of overlapping uploads, uploadedDocs holds
\* one entry {id, name, chunks} per upload that succeeded, taken from its
\* response, in completion order; no call is lost; the totals are the number
\* of successful uploads and the sum of their chunks; and the step in which
\* an upload fails leaves uploadedDocs unchanged and sets error.
C21_UploadedDocs ==
    /\ [](/\ Len(uploadedDocs) = Len(Successes)
          /\ \A k \in 1..Len(Successes) :
                /\ uploadedDocs[k].id = Successes[k].value.document_id
                /\ uploadedDocs[k].name = Successes[k].value.filename
                /\ uploadedDocs[k].chunks = Successes[k].value.chunks_created
          /\ Len(settled) + Cardinality(inflight) = started
          /\ Stats.documents = Len(Successes)
          /\ Stats.chunks = ChunksCreated(Successes))
    /\ [][(settled' # settled /\ ~Succeeded(Last(settled'))) =>
             /\ uploadedDocs' = uploadedDocs
             /\ uploadError' # Null]_vars

\* two uploads overlapped and the second one completed first; then the
\* first: the list has d2 before d1, and 3 chunks in all
C21_Witness ==
    /\ started = 2 /\ inflight = {}
    /\ Len(settled) = 2
    /\ settled[1].call = 2 /\ settled[2].call = 1
    /\ uploadedDocs = << [id |-> "d2", name |-> "b.txt", chunks |-> 0],
                         [id |-> "d1", name |-> "a.pdf", chunks |-> 3] >>
    /\ Stats = [documents |-> 2, chunks |-> 3]

---------------------------------------------------------------------------
\* a query of nothing but spaces
IsBlank(q) == \A i \in 1..Len(q) : q[i] = " "

IsOfType(e, t) == e.kind = "object" /\ e.type = t

\* the data of the last sources event among es, [] if there is none
RECURSIVE SourcesOf(_)
SourcesOf(es) ==
    IF es = <<>> THEN <<>>
    ELSE IF IsOfType(Last(es), "sources") THEN Last(es).data
         ELSE SourcesOf(Front(es))

\* C22: the step in which handleSubmit sends a query has a query that is not
\* blank, and shows answer, sources, error and processingTime cleared with no
\* event of the new stream applied; from then on what is shown comes from the
\* events of the new stream alone, whatever the query before left behind;
\* and while the query is blank no step, a submit included, issues a request
\* or changes the state.
C22_SubmitClears ==
    /\ [](hs # "idle" =>
            /\ answer = AnswerText(Received)
            /\ sources = SourcesOf(Received)
            /\ processingTime # Null =>
                  \E k \in 1..Len(Received) : IsOfType(Received[k], "done")
            /\ error # Null =>
                  \/ hs = "ended" /\ (result = "throw" \/ exit = "abandoned")
                  \/ \E k \in 1..Len(Received) : IsOfType(Received[k], "error"))
    /\ [][/\ (genState' = "fetching" /\ genState # "fetching") =>
               /\ ~IsBlank(query)
               /\ Shown' = Cleared
               /\ yielded' = <<>>
               /\ loading'
          /\ IsBlank(query) /\ query' = query => UNCHANGED <<gvars, uivars>>
          /\ lastSubmit' = "blank" /\ lastSubmit # "blank" =>
               IsBlank(query) /\ UNCHANGED <<gvars, uivars, query, previous>>]_vars

\* a query that showed sources, an answer and a processing time was followed
\* by one whose stream brought another answer and an error event: only those
\* are shown
C22_Witness ==
    /\ hs = "ended"
    /\ previous.sources # <<>>
    /\ previous.answer # <<>>
    /\ previous.processingTime # Null
    /\ sources = <<>>
    /\ processingTime = Null
    /\ answer = <<"2">>
    /\ error = EventData(<<"!">>)

---------------------------------------------------------------------------
\* api.checkHealth() resolved with a response whose status is 'healthy'
Healthy ==
    /\ hcheck.phase = "settled"
    /\ hcheck.outcome.kind = "return"
    /\ hcheck.outcome.value.status = "healthy"

\* C23: the panels are rendered only when the health check has completed
\* with the status 'healthy'; until the check settles the spinner is shown;
\* once it has settled loading is false, and if it failed or returned another
\* status the 'Unable to reach the backend' panel is shown; and the upload
\* panel is used only while it is rendered.
C23_PanelsOnlyWhenHealthy ==
    /\ View = "panels" <=> Healthy
    /\ hcheck.phase \in {"idle", "pending"} => View = "spinner"
    /\ hcheck.phase = "settled" =>
         /\ ~appLoading
         /\ ~Healthy => View = "unreachable"
    /\ (started > 0 \/ dragActive) => View = "panels"

\* the backend answered 'degraded': the check has settled and the panel
\* 'Unable to reach the backend' is shown although health is set
C23_Witness ==
    /\ hcheck.phase = "settled"
    /\ hcheck.outcome.kind = "return"
    /\ health # Absent
    /\ health[1].status = "degraded"
    /\ ~appLoading
    /\ View = "unreachable"

============================================================================
